---------------------------- MODULE Spec2Model ----------------------------
(* A model of src/metadata.py: MetadataGenerator, the one-shot batch utility  *)
(* that inventories the videos of a blob container, synthesises a metadata    *)
(* record for each and publishes it under metadata/<clean_name>.json.         *)
(*                                                                            *)
(* Strings are sequences of one-character strings, so that the program's      *)
(* string operations (lower, startswith, split, Path.stem, Path.suffix,       *)
(* substring search, replace) are computed character by character.           *)
EXTENDS Integers, Sequences, FiniteSets, TLC

VARIABLES
    store,              \* the container: blob name -> blob (a record)
    pc,                 \* "idle" | "loop" | "summary" | "one_done": position inside main()
    videos,             \* generate_all_metadata: the local `videos`
    existing_metadata,  \* generate_all_metadata: the local `existing_metadata`
    force_overwrite,    \* generate_all_metadata: the parameter
    video_blob_name,    \* generate_metadata_for_video: the parameter
    idx,                \* position of the `for video in videos` loop (1-based)
    generated_count,    \* generate_all_metadata: the local `generated_count`
    skipped_count,      \* generate_all_metadata: the local `skipped_count`
    uploads,            \* the upload_blob calls issued by the current operation
    failed,             \* whether a storage call of the current operation failed
    prev,               \* outcome of the previous invocation of main()
    call                \* the last call of a pure function (PureSpec only)

vars == <<store, pc, videos, existing_metadata, force_overwrite, video_blob_name, idx,
          generated_count, skipped_count, uploads, failed, prev, call>>

-----------------------------------------------------------------------------
(* Characters and strings *)

UpperChars == <<"A", "B", "C", "D", "E", "F", "G", "H", "I", "J", "K", "L", "M", "N", "O", "P", "Q", "R", "S", "T", "U", "V", "W", "X", "Y", "Z">>

LowerChars == <<"a", "b", "c", "d", "e", "f", "g", "h", "i", "j", "k", "l", "m", "n", "o", "p", "q", "r", "s", "t", "u", "v", "w", "x", "y", "z">>

\* The characters of the model in code-point order (the order list_blobs uses).
CodePoints == <<" ", "%", "-", ".", "/", "0", "1", "2", "3", "4", "5", "6", "7", "8", "9", "A", "B", "C", "D", "E", "F", "G", "H", "I", "J", "K", "L", "M", "N", "O", "P", "Q", "R", "S", "T", "U", "V", "W", "X", "Y", "Z", "_", "a", "b", "c", "d", "e", "f", "g", "h", "i", "j", "k", "l", "m", "n", "o", "p", "q", "r", "s", "t", "u", "v", "w", "x", "y", "z">>

Ord(c) == CHOOSE k \in 1..Len(CodePoints) : CodePoints[k] = c

\* str.lower() on one character
LowerChar(c) ==
    IF \E k \in 1..26 : UpperChars[k] = c
    THEN LowerChars[CHOOSE k \in 1..26 : UpperChars[k] = c]
    ELSE c

\* str.lower() on every character of the model
LowerTable == [c \in {CodePoints[k] : k \in 1..Len(CodePoints)} |-> LowerChar(c)]

\* str.lower()
Lower(s) == [k \in 1..Len(s) |-> LowerTable[s[k]]]

\* str.startswith(p)
StartsWith(s, p) == Len(p) <= Len(s) /\ SubSeq(s, 1, Len(p)) = p

\* str.endswith(p)
EndsWith(s, p) == Len(p) <= Len(s) /\ SubSeq(s, Len(s) - Len(p) + 1, Len(s)) = p

\* `w in s` for strings
Contains(s, w) == \E k \in 1..(Len(s) - Len(w) + 1) : SubSeq(s, k, k + Len(w) - 1) = w

\* str.replace(a, b) for single characters a, b
Replace(s, a, b) == [k \in 1..Len(s) |-> IF s[k] = a THEN b ELSE s[k]]

\* Position of the last occurrence of character c in s, 0 when there is none.
RFind(s, c) ==
    IF \E k \in 1..Len(s) : s[k] = c
    THEN CHOOSE k \in 1..Len(s) : s[k] = c /\ \A j \in (k+1)..Len(s) : s[j] # c
    ELSE 0

\* Position of the first occurrence of character c in s, 0 when there is none.
Find(s, c) ==
    IF \E k \in 1..Len(s) : s[k] = c
    THEN CHOOSE k \in 1..Len(s) : s[k] = c /\ \A j \in 1..(k-1) : s[j] # c
    ELSE 0

\* blob_name.split('/')[0]
FirstPart(s) == IF Find(s, "/") = 0 THEN s ELSE SubSeq(s, 1, Find(s, "/") - 1)

\* blob_name.split('/')[-1]
LastPart(s) == SubSeq(s, RFind(s, "/") + 1, Len(s))

\* Path(p).name, for paths with no empty, "." or trailing segment
PathName(p) == LastPart(p)

\* Whether the last "." of a file name starts a suffix (pathlib: it is neither
\* the first nor the last character of the name).
HasSuffix(name) == 1 < RFind(name, ".") /\ RFind(name, ".") < Len(name)

\* Path(p).suffix
PathSuffix(p) ==
    LET name == PathName(p)
    IN IF HasSuffix(name) THEN SubSeq(name, RFind(name, "."), Len(name)) ELSE <<>>

\* Path(p).stem
PathStem(p) ==
    LET name == PathName(p)
    IN IF HasSuffix(name) THEN SubSeq(name, 1, RFind(name, ".") - 1) ELSE name

\* Lexicographic order on strings by code point.
RECURSIVE StrLess(_, _)
StrLess(a, b) ==
    IF a = <<>> THEN b # <<>>
    ELSE IF b = <<>> THEN FALSE
    ELSE IF a[1] = b[1] THEN StrLess(Tail(a), Tail(b))
    ELSE Ord(a[1]) < Ord(b[1])

-----------------------------------------------------------------------------
(* String constants of the program *)

s_beginner == <<"b", "e", "g", "i", "n", "n", "e", "r">>
s_intermediate == <<"i", "n", "t", "e", "r", "m", "e", "d", "i", "a", "t", "e">>
s_advanced == <<"a", "d", "v", "a", "n", "c", "e", "d">>
s_basic == <<"b", "a", "s", "i", "c">>
s_intro == <<"i", "n", "t", "r", "o">>
s_fundamentals == <<"f", "u", "n", "d", "a", "m", "e", "n", "t", "a", "l", "s">>
s_101 == <<"1", "0", "1">>
s_start == <<"s", "t", "a", "r", "t">>
s_expert == <<"e", "x", "p", "e", "r", "t">>
s_master == <<"m", "a", "s", "t", "e", "r">>
s_professional == <<"p", "r", "o", "f", "e", "s", "s", "i", "o", "n", "a", "l">>
s_deep == <<"d", "e", "e", "p">>
s_medium == <<"m", "e", "d", "i", "u", "m">>
s_standard == <<"s", "t", "a", "n", "d", "a", "r", "d">>
s_level2 == <<"l", "e", "v", "e", "l", "2">>
s_metadata_slash == <<"m", "e", "t", "a", "d", "a", "t", "a", "/">>
s_dot_json == <<".", "j", "s", "o", "n">>

\* list_existing_videos: video_extensions
video_extensions ==
    { <<".", "m", "p", "4">>, <<".", "a", "v", "i">>, <<".", "m", "o", "v">>,
      <<".", "w", "m", "v">>, <<".", "m", "k", "v">>, <<".", "f", "l", "v">>,
      <<".", "w", "e", "b", "m">> }

\* parse_video_info: ['beginner', 'intermediate', 'advanced'], in this order
Categories == <<s_beginner, s_intermediate, s_advanced>>

BeginnerWords == {s_beginner, s_basic, s_intro, s_fundamentals, s_101, s_start}
AdvancedWords == {s_advanced, s_expert, s_master, s_professional, s_deep}
IntermediateWords == {s_intermediate, s_medium, s_standard, s_level2}

-----------------------------------------------------------------------------
(* Pure functions of MetadataGenerator *)

ContainsAny(s, words) == \E w \in words : Contains(s, w)

\* The precedence the specification text gives: advanced keywords first.
detect_category_advanced_first(filename) ==
    LET filename_lower == Lower(filename)
    IN IF ContainsAny(filename_lower, AdvancedWords) THEN s_advanced
       ELSE IF ContainsAny(filename_lower, IntermediateWords) THEN s_intermediate
       ELSE s_beginner

detect_category_from_filename(filename) ==
    LET filename_lower == Lower(filename)
    IN IF ContainsAny(filename_lower, BeginnerWords) THEN s_beginner
       ELSE IF ContainsAny(filename_lower, AdvancedWords) THEN s_advanced
       ELSE IF ContainsAny(filename_lower, IntermediateWords) THEN s_intermediate
       ELSE s_beginner

\* The directory rule: '/' in blob_name and parts[0].lower() is a category.
DirectoryRule(blob_name) ==
    /\ Contains(blob_name, <<"/">>)
    /\ \E k \in 1..3 : Lower(FirstPart(blob_name)) = Categories[k]

\* The prefix rule: the first category cat, in the order of Categories, with
\* file_name.lower().startswith(cat + "-"); 0 when there is none.
PrefixRule(file_name) ==
    IF \E k \in 1..3 : StartsWith(Lower(file_name), Categories[k] \o <<"-">>)
    THEN CHOOSE k \in 1..3 :
            /\ StartsWith(Lower(file_name), Categories[k] \o <<"-">>)
            /\ \A j \in 1..(k-1) : ~StartsWith(Lower(file_name), Categories[j] \o <<"-">>)
    ELSE 0

\* The prefix rule tried before the directory rule.
parse_video_info_prefix_first(blob_name) ==
    LET file_name == PathStem(blob_name)
        k == PrefixRule(file_name)
    IN IF k # 0
       THEN <<Categories[k], SubSeq(file_name, Len(Categories[k]) + 2, Len(file_name))>>
       ELSE IF DirectoryRule(blob_name)
       THEN <<Lower(FirstPart(blob_name)), PathStem(LastPart(blob_name))>>
       ELSE <<detect_category_from_filename(file_name), file_name>>

\* parse_video_info(blob_name) -> (category, clean_name)
parse_video_info(blob_name) ==
    LET file_name == PathStem(blob_name)
        k == PrefixRule(file_name)
    IN IF DirectoryRule(blob_name)
       THEN <<Lower(FirstPart(blob_name)), PathStem(LastPart(blob_name))>>
       ELSE IF k # 0
       THEN <<Categories[k], SubSeq(file_name, Len(Categories[k]) + 2, Len(file_name))>>
       ELSE <<detect_category_from_filename(file_name), file_name>>

Min(a, b) == IF a < b THEN a ELSE b
Max(a, b) == IF a > b THEN a ELSE b

\* The lower clamp left out.
estimate_duration_no_floor(file_size) ==
    Min(7200, (file_size \div (1024 * 1024)) * 8)

\* estimate_duration(file_size)
estimate_duration(file_size) ==
    Max(300, Min(7200, (file_size \div (1024 * 1024)) * 8))

\* create_metadata: the video_id expression
VideoId(category, clean_name) ==
    category \o <<"-">> \o Replace(Replace(Lower(clean_name), " ", "-"), "_", "-")

-----------------------------------------------------------------------------
(* The blob container and the inputs of main() *)

MiB == 1024 * 1024

\* Largest number of blobs in the container when the program is first run.
MaxBlobs == 3

\* The blobs a container may hold before the first run: videos in category
\* folders, with a category prefix, with an upper-case extension, several
\* whose clean names collide, one whose clean name is empty, a non-video, and
\* blobs already under metadata/.
BlobUniverse ==
    { [name |-> <<"b", "e", "g", "i", "n", "n", "e", "r", "-", ".", "m", "p", "4">>, size |-> 0 * MiB],
      [name |-> <<"b", "e", "g", "i", "n", "n", "e", "r", "/", "x", ".", "m", "p", "4">>, size |-> 40 * MiB],
      [name |-> <<"b", "e", "g", "i", "n", "n", "e", "r", "-", "x", ".", "m", "p", "4">>, size |-> 1000 * MiB],
      [name |-> <<"A", "D", "V", "A", "N", "C", "E", "D", "/", "x", ".", "m", "p", "4">>, size |-> 100 * MiB],
      [name |-> <<"c", "l", "i", "p", ".", "M", "O", "V">>, size |-> 5 * MiB],
      [name |-> <<"n", "o", "t", "e", "s", ".", "t", "x", "t">>, size |-> 1 * MiB],
      [name |-> <<"m", "e", "t", "a", "d", "a", "t", "a", "/", "x", ".", "j", "s", "o", "n">>, size |-> 0 * MiB],
      [name |-> <<"m", "e", "t", "a", "d", "a", "t", "a", "/", "c", "l", "i", "p", ".", "m", "p", "4">>, size |-> 50 * MiB] }

\* The values of --video.
Identifiers ==
    { <<"x", ".", "m", "p", "4">>,
      <<"b", "e", "g", "i", "n", "n", "e", "r", "-", ".", "m", "p", "4">>,
      <<"n", "o", "t", "e", "s", ".", "t", "x", "t">>,
      <<"m", "e", "t", "a", "d", "a", "t", "a", "/", "c", "l", "i", "p", ".", "m", "p", "4">>,
      <<"c", "l", "i", "p", ".", "m", "o", "v">> }

NoCustom == [video_id |-> <<>>, present |-> FALSE]

\* The values of custom_metadata: None, or a dict that overrides video_id.
CustomSamples == { NoCustom, [video_id |-> <<"c", "u", "s", "t", "o", "m">>, present |-> TRUE] }

\* urllib.parse.quote on the characters of the model: letters, digits and
\* "_.-/" are kept, anything else is percent-encoded.
RECURSIVE Quote(_)
Quote(s) ==
    IF s = <<>> THEN <<>>
    ELSE (CASE s[1] = " " -> <<"%", "2", "0">>
            [] s[1] = "%" -> <<"%", "2", "5">>
            [] OTHER -> <<s[1]>>) \o Quote(Tail(s))

\* f"https://{account_name}.blob.core.windows.net/{container_name}/{quote(blob.name)}"
Url(blob_name) == <<"https://{account_name}.blob.core.windows.net/{container_name}/">> \o Quote(blob_name)

\* The filter without the metadata/ test.
IsVideoBlob_no_metadata_skip(blob_name) ==
    Lower(PathSuffix(blob_name)) \in video_extensions

\* list_existing_videos: the two tests a blob passes to be inventoried
IsVideoBlob(blob_name) ==
    /\ ~StartsWith(blob_name, s_metadata_slash)
    /\ Lower(PathSuffix(blob_name)) \in video_extensions

\* metadata_filename = f"{video['clean_name']}.json"; blob_path = f"metadata/{metadata_filename}"
BlobPath(clean_name) == s_metadata_slash \o clean_name \o s_dot_json

\* Every name a blob of the container can have: the names of BlobUniverse and
\* the paths the program can write for them.
AllNames ==
    {b.name : b \in BlobUniverse}
        \cup {BlobPath(parse_video_info(b.name)[2]) : b \in BlobUniverse}

\* The names in lexicographic order, the order of list_blobs.
RECURSIVE SortNames(_)
SortNames(S) ==
    IF S = {} THEN <<>>
    ELSE LET m == CHOOSE x \in S : \A y \in S \ {x} : StrLess(x, y)
         IN <<m>> \o SortNames(S \ {m})

SortedNames == SortNames(AllNames)

\* container_client.list_blobs()
ListBlobs(st) == SelectSeq(SortedNames, LAMBDA n : n \in DOMAIN st)

\* The part of video_info that derives from the blob name alone.
NameInfo ==
    [n \in AllNames |->
        [is_video   |-> IsVideoBlob(n),
         file_name  |-> PathName(n),
         clean_name |-> parse_video_info(n)[2],
         category   |-> parse_video_info(n)[1],
         url        |-> Url(n)]]

VideoInfo(st, blob_name) ==
    [blob_name  |-> blob_name,
     file_name  |-> NameInfo[blob_name].file_name,
     clean_name |-> NameInfo[blob_name].clean_name,
     category   |-> NameInfo[blob_name].category,
     size       |-> st[blob_name].size,
     url        |-> NameInfo[blob_name].url]

\* list_existing_videos(); `fails`: the listing raises, and [] is returned
list_existing_videos(st, fails) ==
    IF fails THEN <<>>
    ELSE LET names == SelectSeq(ListBlobs(st), LAMBDA n : NameInfo[n].is_video)
         IN [k \in 1..Len(names) |-> VideoInfo(st, names[k])]

\* list_blobs(name_starts_with="metadata/")
MetadataBlobs(st) ==
    SelectSeq(ListBlobs(st), LAMBDA n : StartsWith(n, s_metadata_slash))

\* generate_all_metadata: existing_metadata after the first n blobs of the
\* metadata listing were iterated (all of them unless the listing raises)
ExistingMetadata(st, n) ==
    LET blobs == MetadataBlobs(st)
    IN { PathStem(blobs[k]) : k \in { j \in 1..n : EndsWith(blobs[j], s_dot_json) } }

\* create_metadata(video_info, custom_data): the fields that do not derive
\* from the title
create_metadata(video_info, custom_data) ==
    [video_id         |-> IF custom_data.present THEN custom_data.video_id
                          ELSE VideoId(video_info.category, video_info.clean_name),
     category         |-> video_info.category,
     duration_seconds |-> estimate_duration(video_info.size),
     video_url        |-> video_info.url]

\* upload_blob(metadata_json, overwrite=True)
Put(st, blob_path, metadata) ==
    [n \in DOMAIN st \cup {blob_path} |-> IF n = blob_path THEN metadata ELSE st[n]]

\* The except branch returning True.
upload_metadata_true_on_error(st, metadata, blob_path, fails) ==
    [store |-> IF fails THEN st ELSE Put(st, blob_path, metadata), returned |-> TRUE]

\* upload_metadata(metadata, metadata_filename); `fails`: upload_blob raises
upload_metadata(st, metadata, blob_path, fails) ==
    [store |-> IF fails THEN st ELSE Put(st, blob_path, metadata), returned |-> ~fails]

\* The skip test without the force flag.
ShouldSkip_ignoring_force(clean_name, existing, force) ==
    clean_name \in existing

\* No video is ever skipped.
ShouldSkip_never(clean_name, existing, force) ==
    FALSE

\* video['clean_name'] in existing_metadata and not force_overwrite
ShouldSkip(clean_name, existing, force) ==
    clean_name \in existing /\ ~force

\* A video matches the identifier of --video.
Matches(video, identifier) ==
    video.blob_name = identifier \/ video.file_name = identifier

\* The last match instead of the first.
FindTarget_last(vs, identifier) ==
    IF \E k \in 1..Len(vs) : Matches(vs[k], identifier)
    THEN CHOOSE k \in 1..Len(vs) :
            Matches(vs[k], identifier) /\ \A j \in (k+1)..Len(vs) : ~Matches(vs[j], identifier)
    ELSE 0

\* generate_metadata_for_video: the search loop; 0 for target_video = None
FindTarget(vs, identifier) ==
    IF \E k \in 1..Len(vs) : Matches(vs[k], identifier)
    THEN CHOOSE k \in 1..Len(vs) :
            Matches(vs[k], identifier) /\ \A j \in 1..(k-1) : ~Matches(vs[j], identifier)
    ELSE 0

-----------------------------------------------------------------------------
(* main(): one invocation after another on the same container *)

\* What is remembered of the previous invocation: whether it was a batch run
\* without --force in which no storage call failed, and the blobs it left.
NoPrev == [clean_batch |-> FALSE, objects |-> {}]

Init ==
    /\ \E S \in SUBSET BlobUniverse :
          /\ Cardinality(S) <= MaxBlobs
          /\ store = [n \in {b.name : b \in S} |->
                        [size |-> (CHOOSE b \in S : b.name = n).size]]
    /\ pc = "idle"
    /\ videos = <<>>
    /\ existing_metadata = {}
    /\ force_overwrite = FALSE
    /\ video_blob_name = <<>>
    /\ idx = 1
    /\ generated_count = 0
    /\ skipped_count = 0
    /\ uploads = <<>>
    /\ failed = FALSE
    /\ prev = NoPrev
    /\ call = [fn |-> "none"]

\* The locals of an invocation, gone when main() ends.
ResetLocals ==
    /\ videos' = <<>>
    /\ existing_metadata' = {}
    /\ force_overwrite' = FALSE
    /\ video_blob_name' = <<>>
    /\ idx' = 1
    /\ generated_count' = 0
    /\ skipped_count' = 0
    /\ uploads' = <<>>
    /\ failed' = FALSE

\* main() with --list-only: the inventory is printed, nothing is written
ListOnly(list_fails) ==
    /\ pc = "idle"
    /\ list_existing_videos(store, list_fails) = list_existing_videos(store, list_fails)
    /\ prev' = [clean_batch |-> FALSE, objects |-> DOMAIN store]
    /\ ResetLocals
    /\ UNCHANGED <<store, pc, call>>

\* generate_all_metadata(force): `if not videos: return`
GenerateAllNoVideos(force, list_fails) ==
    /\ pc = "idle"
    /\ list_existing_videos(store, list_fails) = <<>>
    /\ prev' = [clean_batch |-> ~force /\ ~list_fails, objects |-> DOMAIN store]
    /\ ResetLocals
    /\ UNCHANGED <<store, pc, call>>

\* generate_all_metadata(force) up to the loop: the inventory, then the
\* existing-metadata set; the metadata listing raises after `listed` blobs
\* when meta_fails.
GenerateAllBegin(force, meta_fails, listed) ==
    /\ pc = "idle"
    /\ list_existing_videos(store, FALSE) # <<>>
    /\ listed \in 0..Len(MetadataBlobs(store))
    /\ ~meta_fails => listed = Len(MetadataBlobs(store))
    /\ videos' = list_existing_videos(store, FALSE)
    /\ existing_metadata' = ExistingMetadata(store, listed)
    /\ force_overwrite' = force
    /\ idx' = 1
    /\ generated_count' = 0
    /\ skipped_count' = 0
    /\ uploads' = <<>>
    /\ failed' = meta_fails
    /\ pc' = "loop"
    /\ UNCHANGED <<store, video_blob_name, prev, call>>

\* One iteration of the loop that takes the skip branch.
LoopSkip ==
    /\ pc = "loop"
    /\ idx <= Len(videos)
    /\ ShouldSkip(videos[idx].clean_name, existing_metadata, force_overwrite)
    /\ skipped_count' = skipped_count + 1
    /\ idx' = idx + 1
    /\ UNCHANGED <<store, pc, videos, existing_metadata, force_overwrite, video_blob_name,
                   generated_count, uploads, failed, prev, call>>

\* One iteration of the loop that creates and uploads the metadata.
LoopUpload(upload_fails) ==
    /\ pc = "loop"
    /\ idx <= Len(videos)
    /\ ~ShouldSkip(videos[idx].clean_name, existing_metadata, force_overwrite)
    /\ LET video == videos[idx]
           metadata == create_metadata(video, NoCustom)
           blob_path == BlobPath(video.clean_name)
           r == upload_metadata(store, metadata, blob_path, upload_fails)
       IN /\ store' = r.store
          /\ generated_count' = IF r.returned THEN generated_count + 1 ELSE generated_count
          /\ uploads' = Append(uploads, [blob_name |-> video.blob_name,
                                         blob_path |-> blob_path,
                                         metadata  |-> metadata,
                                         ok        |-> ~upload_fails])
    /\ failed' = (failed \/ upload_fails)
    /\ idx' = idx + 1
    /\ UNCHANGED <<pc, videos, existing_metadata, force_overwrite, video_blob_name,
                   skipped_count, prev, call>>

\* The loop is over: the summary lines are printed.
Summary ==
    /\ pc = "loop"
    /\ idx > Len(videos)
    /\ pc' = "summary"
    /\ UNCHANGED <<store, videos, existing_metadata, force_overwrite, video_blob_name, idx,
                   generated_count, skipped_count, uploads, failed, prev, call>>

\* generate_all_metadata returns and main() ends.
Return ==
    /\ pc = "summary"
    /\ pc' = "idle"
    /\ prev' = [clean_batch |-> ~force_overwrite /\ ~failed, objects |-> DOMAIN store]
    /\ ResetLocals
    /\ UNCHANGED <<store, call>>

\* generate_metadata_for_video(video_blob_name, custom_metadata)
GenerateOne(requested, custom_metadata, list_fails, upload_fails) ==
    /\ pc = "idle"
    /\ LET vs == list_existing_videos(store, list_fails)
           t == FindTarget(vs, requested)
       IN /\ videos' = vs
          /\ IF t = 0
             THEN /\ ~upload_fails
                  /\ store' = store
                  /\ uploads' = <<>>
             ELSE LET metadata == create_metadata(vs[t], custom_metadata)
                      blob_path == BlobPath(vs[t].clean_name)
                      r == upload_metadata(store, metadata, blob_path, upload_fails)
                  IN /\ store' = r.store
                     /\ uploads' = <<[blob_name |-> vs[t].blob_name,
                                      blob_path |-> blob_path,
                                      metadata  |-> metadata,
                                      ok        |-> ~upload_fails]>>
    /\ video_blob_name' = requested
    /\ failed' = (list_fails \/ upload_fails)
    /\ pc' = "one_done"
    /\ UNCHANGED <<existing_metadata, force_overwrite, idx, generated_count,
                   skipped_count, prev, call>>

\* generate_metadata_for_video returns and main() ends.
ReturnOne ==
    /\ pc = "one_done"
    /\ pc' = "idle"
    /\ prev' = [clean_batch |-> FALSE, objects |-> DOMAIN store]
    /\ ResetLocals
    /\ UNCHANGED <<store, call>>

Next ==
    \/ \E list_fails \in BOOLEAN : ListOnly(list_fails)
    \/ \E force, list_fails \in BOOLEAN : GenerateAllNoVideos(force, list_fails)
    \/ \E force, meta_fails \in BOOLEAN :
          \E listed \in 0..Cardinality(DOMAIN store) :
             GenerateAllBegin(force, meta_fails, listed)
    \/ LoopSkip
    \/ \E upload_fails \in BOOLEAN : LoopUpload(upload_fails)
    \/ Summary
    \/ Return
    \/ \E requested \in Identifiers, custom_metadata \in CustomSamples :
          \E list_fails, upload_fails \in BOOLEAN :
             GenerateOne(requested, custom_metadata, list_fails, upload_fails)
    \/ ReturnOne

Spec == Init /\ [][Next]_vars

-----------------------------------------------------------------------------
(* The pure functions on their own: each behaviour is one call *)

\* Number of whole mebibytes up to which every size is sampled.
MaxSmallMiB == 2

\* File sizes in mebibytes around the points where estimate_duration changes.
MiBSamples == (0..MaxSmallMiB) \cup {36, 37, 38, 39, 450, 899, 900, 901, 2047}

SizeSamples == { q * MiB + r : q \in MiBSamples, r \in {0, MiB - 1} }

DirSamples == { <<>>, <<"B", "e", "g", "i", "n", "n", "e", "r", "/">>,
                <<"A", "D", "V", "A", "N", "C", "E", "D", "/">>,
                <<"i", "n", "t", "e", "r", "m", "e", "d", "i", "a", "t", "e", "/">>,
                <<"o", "t", "h", "e", "r", "/">>,
                <<"a", "d", "v", "a", "n", "c", "e", "d", "/", "p", "a", "r", "t", "1", "/">> }

PrefixSamples == { <<>>, <<"b", "e", "g", "i", "n", "n", "e", "r", "-">>,
                   <<"A", "d", "v", "a", "n", "c", "e", "d", "-">>,
                   <<"i", "n", "t", "e", "r", "m", "e", "d", "i", "a", "t", "e", "-">> }

BodySamples == { <<>>, <<"x">>, <<"i", "n", "t", "r", "o">>, <<"M", "a", "s", "t", "e", "r">>,
                 <<"i", "n", "t", "r", "o", "_", "m", "a", "s", "t", "e", "r">>,
                 <<"m", "e", "d", "i", "u", "m">>,
                 <<"d", "e", "e", "p", "_", "m", "e", "d", "i", "u", "m">>,
                 <<"v", "i", "d", "e", "o", "_", "1", "0", "1">>,
                 <<"s", "t", "a", "n", "d", "a", "r", "d", " ", "s", "t", "a", "r", "t">>,
                 <<"l", "e", "s", "s", "o", "n", ".", "v", "2">> }

ExtSamples == { <<".", "m", "p", "4">>, <<".", "M", "O", "V">> }

\* Blob names that list_existing_videos inventories: an optional folder, an
\* optional category prefix, a body that may hold keywords, and a video
\* extension after a non-empty base name.
NameSamples ==
    { n \in { d \o p \o b \o e : d \in DirSamples, p \in PrefixSamples,
                                 b \in BodySamples, e \in ExtSamples } :
        IsVideoBlob(n) }

PureInit ==
    /\ store = <<>>
    /\ pc = "idle"
    /\ videos = <<>>
    /\ existing_metadata = {}
    /\ force_overwrite = FALSE
    /\ video_blob_name = <<>>
    /\ idx = 1
    /\ generated_count = 0
    /\ skipped_count = 0
    /\ uploads = <<>>
    /\ failed = FALSE
    /\ prev = NoPrev
    /\ call = [fn |-> "none"]

CallParseVideoInfo(blob_name) ==
    /\ call.fn = "none"
    /\ call' = [fn |-> "parse_video_info", arg |-> blob_name,
                result |-> parse_video_info(blob_name)]
    /\ UNCHANGED <<store, pc, videos, existing_metadata, force_overwrite, video_blob_name, idx,
                   generated_count, skipped_count, uploads, failed, prev>>

CallEstimateDuration(a, b) ==
    /\ call.fn = "none"
    /\ call' = [fn |-> "estimate_duration", arg |-> <<a, b>>,
                result |-> <<estimate_duration(a), estimate_duration(b)>>]
    /\ UNCHANGED <<store, pc, videos, existing_metadata, force_overwrite, video_blob_name, idx,
                   generated_count, skipped_count, uploads, failed, prev>>

PureNext ==
    \/ \E blob_name \in NameSamples : CallParseVideoInfo(blob_name)
    \/ \E a, b \in SizeSamples : CallEstimateDuration(a, b)

PureSpec == PureInit /\ [][PureNext]_vars

-----------------------------------------------------------------------------
(* Properties *)

\* The position of the current invocation is inside a batch run.
InBatch == pc \in {"loop", "summary"}

\* C1: idempotence of generate_all_metadata(force_overwrite=False). When a
\* batch run without force in which no storage call fails directly follows
\* another such run, the second run uploads nothing, skips every inventoried
\* video (generated = 0, skipped = total) and leaves the same set of blobs.
C1_BatchIdempotent ==
    (pc = "summary" /\ ~force_overwrite /\ ~failed /\ prev.clean_batch)
        => /\ generated_count = 0
           /\ skipped_count = Len(videos)
           /\ uploads = <<>>
           /\ DOMAIN store = prev.objects

\* C2: with force_overwrite=True an upload to metadata/<clean_name>.json is
\* issued for every video of the inventory, in order, whether or not its
\* clean name is in the existing-metadata set, and no video is skipped.
C2_ForceUploadsEveryVideo ==
    (InBatch /\ force_overwrite)
        => /\ skipped_count = 0
           /\ Len(uploads) = idx - 1
           /\ pc = "summary" => Len(uploads) = Len(videos)
           /\ \A k \in 1..Len(uploads) :
                 /\ uploads[k].blob_name = videos[k].blob_name
                 /\ uploads[k].blob_path =
                        s_metadata_slash \o videos[k].clean_name \o s_dot_json

\* A forced batch run reached its summary with at least two videos, one of
\* which already had its clean name in the existing-metadata set.
C2_Witness ==
    /\ pc = "summary"
    /\ force_overwrite
    /\ Len(videos) >= 2
    /\ Len(uploads) = Len(videos)
    /\ \E k \in 1..Len(videos) : videos[k].clean_name \in existing_metadata

\* C3: a failed upload in the batch loop is caught and returned as False: it
\* is not counted as generated, it leaves the store unchanged, the loop goes
\* on to the next video, and the run ends in its summary with every video of
\* the inventory either skipped or uploaded.
C3_UploadFailureContained ==
    /\ [](InBatch =>
            /\ generated_count = Cardinality({k \in 1..Len(uploads) : uploads[k].ok})
            /\ skipped_count + Len(uploads) = idx - 1
            /\ idx <= Len(videos) + 1)
    /\ [](pc = "summary" => skipped_count + Len(uploads) = Len(videos))
    /\ [][(pc = "loop" /\ Len(uploads') = Len(uploads) + 1
                       /\ ~uploads'[Len(uploads')].ok)
            => /\ store' = store
               /\ generated_count' = generated_count
               /\ idx' = idx + 1
               /\ pc' = "loop"]_vars
    /\ [][pc = "loop" => pc' \in {"loop", "summary"}]_vars

\* A batch run reached its summary after an upload failed and a later video
\* was uploaded successfully.
C3_Witness ==
    /\ pc = "summary"
    /\ \E j, k \in 1..Len(uploads) : j < k /\ ~uploads[j].ok /\ uploads[k].ok

\* The positions of the inventory that an identifier matches.
MatchesOf(vs, id) ==
    {k \in 1..Len(vs) : vs[k].blob_name = id \/ vs[k].file_name = id}

\* C4: generate_metadata_for_video(identifier): when no inventoried video has
\* blob_name or file_name equal to the identifier (the inventory is empty when
\* the listing fails) no upload is issued and the store is unchanged; when
\* there is a match exactly one upload is issued, for the first matching video
\* in listing order.
C4_SingleVideo ==
    [][(pc = "idle" /\ pc' = "one_done")
         => LET m == MatchesOf(videos', video_blob_name')
            IN IF m = {}
               THEN uploads' = <<>> /\ store' = store
               ELSE /\ Len(uploads') = 1
                    /\ \E k \in m :
                          /\ \A j \in m : k <= j
                          /\ uploads'[1].blob_name = videos'[k].blob_name
                          /\ uploads'[1].blob_path =
                                s_metadata_slash \o videos'[k].clean_name \o s_dot_json]_vars

\* A single-video run whose identifier matched two inventoried videos.
C4_Witness ==
    /\ pc = "one_done"
    /\ Cardinality(MatchesOf(videos, video_blob_name)) >= 2
    /\ Len(uploads) = 1

\* A blob name that is not under metadata/ and ends, lowercased, with one of
\* the seven video extensions.
SupportedName(n) ==
    /\ ~StartsWith(n, s_metadata_slash)
    /\ \E e \in video_extensions :
          /\ Len(e) <= Len(n)
          /\ Lower(SubSeq(n, Len(n) - Len(e) + 1, Len(n))) = e

\* The URLs of the blobs that are under metadata/ or have no supported
\* extension.
UnsupportedUrls == {Url(b.name) : b \in {x \in BlobUniverse : ~SupportedName(x.name)}}

\* C5: every inventoried video has a blob name that is not under metadata/
\* and has a supported extension; no upload is issued, and no metadata
\* document is in the store, on behalf of any other blob.
C5_InventoryFilter ==
    /\ \A k \in 1..Len(videos) : SupportedName(videos[k].blob_name)
    /\ \A k \in 1..Len(uploads) : SupportedName(uploads[k].blob_name)
    /\ \A n \in DOMAIN store :
          "video_url" \in DOMAIN store[n] => store[n].video_url \notin UnsupportedUrls

\* A batch run uploaded metadata while the container held a blob with an
\* unsupported extension and a video file under metadata/.
C5_Witness ==
    /\ pc = "summary"
    /\ \E k \in 1..Len(uploads) : uploads[k].ok
    /\ \E n \in DOMAIN store :
          StartsWith(n, s_metadata_slash) /\ EndsWith(n, <<".", "m", "p", "4">>)
    /\ \E n \in DOMAIN store : EndsWith(n, <<".", "t", "x", "t">>)

\* The base name of the argument of the last call, lowercased.
CallStemLower == Lower(PathStem(call.arg))

\* The argument of the last call is in no category folder.
CallNoDirectory ==
    ~(Contains(call.arg, <<"/">>)
        /\ Lower(FirstPart(call.arg)) \in {s_beginner, s_intermediate, s_advanced})

\* The base name of the argument of the last call has no category prefix.
CallNoPrefix ==
    \A c \in {s_beginner, s_intermediate, s_advanced} :
        ~StartsWith(CallStemLower, c \o <<"-">>)

CallHasWord(words) == \E w \in words : Contains(CallStemLower, w)

C7_DirectoryFirst ==
    call.fn = "parse_video_info"
        => /\ \E e \in ExtSamples :
                IF ~CallNoDirectory
                THEN /\ call.result[1] = Lower(FirstPart(call.arg))
                     /\ LastPart(call.arg) = call.result[2] \o e
                ELSE IF ~CallNoPrefix
                THEN \E c \in {s_beginner, s_intermediate, s_advanced} :
                        /\ call.result[1] = c
                        /\ Lower(LastPart(call.arg)) = c \o <<"-">> \o Lower(call.result[2] \o e)
                        /\ EndsWith(LastPart(call.arg), call.result[2] \o e)
                ELSE /\ LastPart(call.arg) = call.result[2] \o e
                     /\ call.result[1] \in {s_beginner, s_intermediate, s_advanced}

\* A path in a beginner folder whose file name has an advanced prefix and an
\* advanced keyword was classified beginner.
C7_Witness ==
    /\ call.fn = "parse_video_info"
    /\ Lower(FirstPart(call.arg)) = s_beginner
    /\ StartsWith(Lower(LastPart(call.arg)), s_advanced \o <<"-">>)
    /\ CallHasWord({s_master})
    /\ call.result[1] = s_beginner

\* C8: estimate_duration(size) is in [300, 7200] for every size >= 0, is 300
\* for size 0 and 7200 for 900*1024*1024 bytes, and is monotonic
\* non-decreasing in the size.
C8_EstimateDuration ==
    call.fn = "estimate_duration"
        => /\ call.result[1] \in 300..7200
           /\ call.arg[1] = 0 => call.result[1] = 300
           /\ call.arg[1] = 900 * 1024 * 1024 => call.result[1] = 7200
           /\ call.arg[1] <= call.arg[2] => call.result[1] <= call.result[2]

\* estimate_duration was called on size 0 and on 900 MiB.
C8_Witness ==
    /\ call.fn = "estimate_duration"
    /\ call.arg = <<0, 900 * 1024 * 1024>>
    /\ call.result = <<300, 7200>>

\* The stems of the '.json' blobs under metadata/.
JsonStems(st) ==
    {PathStem(n) : n \in {x \in DOMAIN st :
                            StartsWith(x, s_metadata_slash) /\ EndsWith(x, s_dot_json)}}

\* C9: skip-if-exists: the existing-metadata set is computed once, before the
\* loop, from the stems of the '.json' blobs under metadata/; an iteration on
\* a video whose clean name is in the set, without force, counts the video as
\* skipped, issues no upload and leaves the store unchanged; any other
\* iteration issues one upload, for that video, and skips nothing.
C9_SkipIfExists ==
    /\ [][(pc = "idle" /\ pc' = "loop")
            => /\ existing_metadata' \subseteq JsonStems(store)
               /\ ~failed' => existing_metadata' = JsonStems(store)]_vars
    /\ [][pc = "loop" => existing_metadata' = existing_metadata]_vars
    /\ [][(pc = "loop" /\ pc' = "loop")
            => IF videos[idx].clean_name \in existing_metadata /\ ~force_overwrite
               THEN /\ skipped_count' = skipped_count + 1
                    /\ uploads' = uploads
                    /\ store' = store
               ELSE /\ skipped_count' = skipped_count
                    /\ Len(uploads') = Len(uploads) + 1
                    /\ uploads'[Len(uploads')].blob_name = videos[idx].blob_name]_vars

\* A batch run without force reached its summary having skipped one video and
\* uploaded another.
C9_Witness ==
    /\ pc = "summary"
    /\ ~force_overwrite
    /\ skipped_count >= 1
    /\ \E k \in 1..Len(uploads) : uploads[k].ok

\* C10: within one run no two distinct inventoried videos yield metadata
\* records with the same video_id.
C10_UniqueVideoIds ==
    InBatch
        => \A j, k \in 1..Len(uploads) :
              uploads[j].blob_name # uploads[k].blob_name
                  => uploads[j].metadata.video_id # uploads[k].metadata.video_id

=============================================================================
